---- MODULE Spec2Model ----
(***************************************************************************)
(* A model of raster_tools' grid utility layer (src/raster_tools/utils.py) *)
(* and of the Raster operations its tests exercise (band_concat,           *)
(* cost_distance_analysis).                                                *)
(*                                                                         *)
(* Every utility is a function call: an action draws the arguments from a  *)
(* bounded set, runs the whole function and records the arguments in       *)
(* `call` and the outcome in `ret`.  `heap` holds the mutable mask arrays  *)
(* merge_masks works on, `rasters` the Rasters built so far.               *)
(***************************************************************************)
EXTENDS Integers, Sequences, FiniteSets, TLC

VARIABLES call, ret, heap, rasters

vars == <<call, ret, heap, rasters>>

(***************************************************************************)
(* Shared vocabulary                                                       *)
(***************************************************************************)

\* Python's None / an optional value: the empty tuple, or a 1-tuple.
NoneV == <<>>
Some(v) == <<v>>
IsNone(o) == o = <<>>

\* No call made yet / no outcome yet.
Idle == [fn |-> "idle"]
NoRet == [kind |-> "none"]

\* The outcomes of a call: a returned value or a raised exception.
Return(v) == [kind |-> "return", value |-> v]
Raise(e) == [kind |-> "raise", error |-> e]

\* The spec's InvalidInput covers Python's TypeError and ValueError.
InvalidInput == {"TypeError", "ValueError"}

Min2(a, b) == IF a <= b THEN a ELSE b
Max2(a, b) == IF a >= b THEN a ELSE b

RECURSIVE Prod(_)
Prod(s) == IF Len(s) = 0 THEN 1 ELSE Head(s) * Prod(Tail(s))

\* All tuples over S of length lo..hi.
TuplesOf(S, lo, hi) == UNION {[1..n -> S] : n \in lo..hi}

\* An n-dimensional array: its shape and its elements in row-major order.
Array(shape, data) == [shape |-> shape, data |-> data]
NDim(a) == Len(a.shape)

InitIdle ==
    /\ call = Idle
    /\ ret = NoRet
    /\ heap = <<>>
    /\ rasters = <<>>

(***************************************************************************)
(* is_strictly_increasing / is_strictly_decreasing  (utils.py 22-35)       *)
(*                                                                         *)
(* np.asarray turns a sequence of integers into an int64 array and np.diff *)
(* subtracts neighbours in int64, which wraps around modulo 2^64.  An      *)
(* int64 is modelled as its two's-complement limbs, least significant      *)
(* first.                                                                  *)
(***************************************************************************)

Int64Limbs == 4
LimbBase == 2^16
SignLimb == 2^15

\* The int64 of a small integer n, -LimbBase < n < LimbBase.
I64(n) ==
    [i \in 1..Int64Limbs |->
        IF n >= 0 THEN (IF i = 1 THEN n ELSE 0)
        ELSE (IF i = 1 THEN LimbBase + n ELSE LimbBase - 1)]

Int64Max == [i \in 1..Int64Limbs |-> IF i = Int64Limbs THEN SignLimb - 1 ELSE LimbBase - 1]
Int64Min == [i \in 1..Int64Limbs |-> IF i = Int64Limbs THEN SignLimb ELSE 0]

RECURSIVE BorrowIn(_, _, _)
BorrowIn(a, b, i) ==
    IF i = 1 THEN 0
    ELSE IF a[i - 1] - b[i - 1] - BorrowIn(a, b, i - 1) < 0 THEN 1 ELSE 0

\* a - b in int64 arithmetic (numpy array subtraction wraps silently).
SubI64(a, b) ==
    [i \in 1..Int64Limbs |-> (a[i] - b[i] - BorrowIn(a, b, i)) % LimbBase]

IsNegI64(a) == a[Int64Limbs] >= SignLimb
IsZeroI64(a) == \A i \in 1..Int64Limbs : a[i] = 0
IsPosI64(a) == ~IsNegI64(a) /\ ~IsZeroI64(a)

\* ndarray.squeeze(): drop every axis of length 1.
Squeeze(a) == Array(SelectSeq(a.shape, LAMBDA d : d # 1), a.data)

\* np.atleast_1d: a 0-d array becomes a 1-element 1-d array.
AtLeast1d(a) == IF NDim(a) = 0 THEN Array(<<1>>, a.data) ELSE a

\* np.diff of a 1-d int64 array.
Diff(x) == [i \in 1..(Len(x) - 1) |-> SubI64(x[i + 1], x[i])]

is_strictly_increasing(x) ==
    LET a == AtLeast1d(Squeeze(x))
    IN  IF NDim(a) # 1 THEN Raise("AssertionError")
        ELSE LET diff == Diff(a.data)
             IN  Return(Len(diff) > 0 /\ \A i \in 1..Len(diff) : IsPosI64(diff[i]))

is_strictly_decreasing(x) ==
    LET a == AtLeast1d(Squeeze(x))
    IN  IF NDim(a) # 1 THEN Raise("AssertionError")
        ELSE LET diff == Diff(a.data)
             IN  Return(Len(diff) > 0 /\ \A i \in 1..Len(diff) : IsNegI64(diff[i]))

\* Longest sequence handed to the monotonicity checks.
MaxLen == 3

\* Integers at and between the ends of the int64 range.
I64Samples == {Int64Min, I64(-1), I64(0), I64(1), Int64Max}

\* A sequence as a 1-d array, or as the equivalent row or column vector.
MonotoneInputs ==
    UNION {{Array(<<Len(d)>>, d), Array(<<1, Len(d)>>, d), Array(<<Len(d), 1>>, d)} :
              d \in TuplesOf(I64Samples, 0, MaxLen)}

IsStrictlyIncreasing ==
    /\ call = Idle
    /\ \E x \in MonotoneInputs :
          /\ call' = [fn |-> "is_strictly_increasing", x |-> x]
          /\ ret' = is_strictly_increasing(x)
    /\ UNCHANGED <<heap, rasters>>

IsStrictlyDecreasing ==
    /\ call = Idle
    /\ \E x \in MonotoneInputs :
          /\ call' = [fn |-> "is_strictly_decreasing", x |-> x]
          /\ ret' = is_strictly_decreasing(x)
    /\ UNCHANGED <<heap, rasters>>

NextMonotone == IsStrictlyIncreasing \/ IsStrictlyDecreasing

SpecMonotone == InitIdle /\ [][NextMonotone]_vars

\* The order of the integers the limbs stand for.
I64Key(a) ==
    [i \in 1..Int64Limbs |->
        IF i = Int64Limbs THEN (a[i] + SignLimb) % LimbBase ELSE a[i]]

LessI64(a, b) ==
    \E i \in 1..Int64Limbs :
        /\ I64Key(a)[i] < I64Key(b)[i]
        /\ \A j \in (i + 1)..Int64Limbs : I64Key(a)[j] = I64Key(b)[j]

PairwiseIncreasing(d) == Len(d) >= 2 /\ \A i \in 1..(Len(d) - 1) : LessI64(d[i], d[i + 1])
PairwiseDecreasing(d) == Len(d) >= 2 /\ \A i \in 1..(Len(d) - 1) : LessI64(d[i + 1], d[i])

\* C1: for every finite sequence x of integers, is_strictly_increasing(x) is
\* true exactly when x has at least two elements and x[i] < x[i+1] for every
\* consecutive pair, and is_strictly_decreasing(x) is true exactly when x has
\* at least two elements and x[i] > x[i+1] for every consecutive pair.
C1_MonotoneMatchesPairwise ==
    /\ call.fn = "is_strictly_increasing" =>
          ret = Return(PairwiseIncreasing(call.x.data))
    /\ call.fn = "is_strictly_decreasing" =>
          ret = Return(PairwiseDecreasing(call.x.data))

\* a - b leaves the int64 range: the operands differ in sign and the
\* difference has the sign of b.
SubWraps(a, b) ==
    /\ IsNegI64(a) # IsNegI64(b)
    /\ IsNegI64(SubI64(a, b)) = IsNegI64(b)

\* Where no consecutive difference leaves the int64 range, the two functions
\* do agree with the pairwise comparison.
MonotoneAgreesWithoutWrap ==
    (call.fn \in {"is_strictly_increasing", "is_strictly_decreasing"}
        /\ \A i \in 1..(Len(call.x.data) - 1) :
              ~SubWraps(call.x.data[i + 1], call.x.data[i])) =>
        C1_MonotoneMatchesPairwise

(***************************************************************************)
(* can_broadcast  (utils.py 38-43)                                         *)
(***************************************************************************)

\* The size of axis k of shape s counted from the trailing axis, a missing
\* leading axis counting as 1.
AxisFromEnd(s, k) == IF k <= Len(s) THEN s[Len(s) - k + 1] ELSE 1

\* numpy's broadcasting of one more shape b into the result a: per axis, a
\* size of 1 gives way to the other size and two other sizes must be equal.
BroadcastInto(a, b) ==
    LET n == Max2(Len(a), Len(b))
        clash == \E k \in 1..n :
                    /\ AxisFromEnd(a, k) # 1
                    /\ AxisFromEnd(b, k) # 1
                    /\ AxisFromEnd(a, k) # AxisFromEnd(b, k)
    IN  IF clash THEN Raise("ValueError")
        ELSE Return([i \in 1..n |->
                       IF AxisFromEnd(b, n - i + 1) = 1
                       THEN AxisFromEnd(a, n - i + 1)
                       ELSE AxisFromEnd(b, n - i + 1)])

\* np.broadcast_shapes(*shapes): the shapes are folded in from the left,
\* starting from the 0-d shape; the first clash raises ValueError.
RECURSIVE BroadcastFrom(_, _)
BroadcastFrom(acc, shapes) ==
    IF Len(shapes) = 0 THEN Return(acc)
    ELSE LET r == BroadcastInto(acc, Head(shapes))
         IN  IF r.kind = "raise" THEN r ELSE BroadcastFrom(r.value, Tail(shapes))

broadcast_shapes(shapes) == BroadcastFrom(<<>>, shapes)

\* A plausible slip: the lower bound compared strictly.
can_broadcast_strict_min(shapes, max_dim, min_dim) ==
    LET result == broadcast_shapes(shapes)
    IN  IF result.kind = "raise" THEN Return(FALSE)
        ELSE Return(Len(result.value) > min_dim /\ Len(result.value) <= max_dim)

can_broadcast(shapes, max_dim, min_dim) ==
    LET result == broadcast_shapes(shapes)
    IN  IF result.kind = "raise"
        THEN (IF result.error = "ValueError" THEN Return(FALSE) ELSE result)
        ELSE Return(Len(result.value) >= min_dim /\ Len(result.value) <= max_dim)

\* Highest rank of a shape, and most shapes in one call.
MaxRank == 2
MaxShapes == 2

\* Axis sizes: empty, broadcastable, and a size that is neither.
DimSizes == {0, 1, 2}

ShapeSet == TuplesOf(DimSizes, 0, MaxRank)

CanBroadcast ==
    /\ call = Idle
    /\ \E shapes \in TuplesOf(ShapeSet, 0, MaxShapes) :
       \E min_dim \in 0..MaxRank :
       \E max_dim \in min_dim..MaxRank :
          /\ call' = [fn |-> "can_broadcast", shapes |-> shapes,
                      max_dim |-> max_dim, min_dim |-> min_dim]
          /\ ret' = can_broadcast(shapes, max_dim, min_dim)
    /\ UNCHANGED <<heap, rasters>>

NextBroadcast == CanBroadcast

SpecBroadcast == InitIdle /\ [][NextBroadcast]_vars

\* Two shapes agree on every axis they share, counted from the trailing one.
PairCompatible(s, t) ==
    \A k \in 1..Min2(Len(s), Len(t)) :
        \/ s[Len(s) - k + 1] = t[Len(t) - k + 1]
        \/ s[Len(s) - k + 1] = 1
        \/ t[Len(t) - k + 1] = 1

MutuallyCompatible(shapes) ==
    \A i, j \in 1..Len(shapes) : PairCompatible(shapes[i], shapes[j])

\* The rank of the broadcast shape: the highest rank among the shapes.
RECURSIVE BroadcastRank(_)
BroadcastRank(shapes) ==
    IF Len(shapes) = 0 THEN 0
    ELSE Max2(Len(Head(shapes)), BroadcastRank(Tail(shapes)))

\* C2: can_broadcast returns true exactly when the shapes are mutually
\* broadcast-compatible, aligned from the trailing axis, and the rank of the
\* broadcast shape lies in [min_dim, max_dim]; for incompatible shapes it
\* returns false and no error escapes.
C2_CanBroadcastExact ==
    call.fn = "can_broadcast" =>
        ret = Return(/\ MutuallyCompatible(call.shapes)
                     /\ call.min_dim <= BroadcastRank(call.shapes)
                     /\ BroadcastRank(call.shapes) <= call.max_dim)

\* C2 witness: can_broadcast has returned true for two shapes of differing
\* rank, one of which is stretched along an axis where the other has size 1.
C2_Witness ==
    /\ call.fn = "can_broadcast"
    /\ Len(call.shapes) = 2
    /\ Len(call.shapes[1]) < Len(call.shapes[2])
    /\ \E k \in 1..Len(call.shapes[1]) :
          AxisFromEnd(call.shapes[1], k) = 1 /\ AxisFromEnd(call.shapes[2], k) = 2
    /\ ret = Return(TRUE)

(***************************************************************************)
(* list_reshape_2d / list_reshape_3d  (utils.py 142-166)                   *)
(***************************************************************************)

\* The inner loop of list_reshape_2d: append `left` more elements to `row`,
\* reading lst at the 0-based flat_idx (lst[flat_idx] raises IndexError past
\* the end).
RECURSIVE Reshape2dCols(_, _, _, _)
Reshape2dCols(lst, left, row, flat_idx) ==
    IF left <= 0 THEN [kind |-> "return", value |-> row, flat_idx |-> flat_idx]
    ELSE IF flat_idx >= Len(lst) THEN Raise("IndexError")
    ELSE Reshape2dCols(lst, left - 1, Append(row, lst[flat_idx + 1]), flat_idx + 1)

\* The outer loop of list_reshape_2d: append `left` more rows to `out`.
RECURSIVE Reshape2dRows(_, _, _, _, _)
Reshape2dRows(lst, left, ncols, out, flat_idx) ==
    IF left <= 0 THEN Return(out)
    ELSE LET r == Reshape2dCols(lst, ncols, <<>>, flat_idx)
         IN  IF r.kind = "raise" THEN r
             ELSE Reshape2dRows(lst, left - 1, ncols, Append(out, r.value), r.flat_idx)

list_reshape_2d(lst, shape, flat_start) ==
    IF Len(shape) # 2 THEN Raise("TypeError")
    ELSE Reshape2dRows(lst, shape[1], shape[2], <<>>, flat_start)

\* The loop of list_reshape_3d: append `left` more bands to `out`, the flat
\* offset advancing by `step` per band.
RECURSIVE Reshape3dBands(_, _, _, _, _, _)
Reshape3dBands(lst, left, shape_2d, step, out, flat_idx) ==
    IF left <= 0 THEN Return(out)
    ELSE LET r == list_reshape_2d(lst, shape_2d, flat_idx)
         IN  IF r.kind = "raise" THEN r
             ELSE Reshape3dBands(lst, left - 1, shape_2d, step,
                                 Append(out, r.value), flat_idx + step)

\* A plausible slip: the offset advanced by one row instead of one band.
list_reshape_3d_row_step(lst, shape) ==
    IF Len(shape) # 3 THEN Raise("TypeError")
    ELSE Reshape3dBands(lst, shape[1], Tail(shape), shape[3], <<>>, 0)

list_reshape_3d(lst, shape) ==
    IF Len(shape) # 3 THEN Raise("TypeError")
    ELSE LET nbands == Head(shape)
             shape_2d == Tail(shape)
             n_2d == Prod(shape_2d)
         IN  Reshape3dBands(lst, nbands, shape_2d, n_2d, <<>>, 0)

\* Largest size of one axis of a reshape target, and longest shape tuple.
MaxSide == 2
MaxShapeLen == 4

\* Flat sequences of pairwise distinct elements, long enough for every
\* shape and one element longer.
FlatLists == {[i \in 1..n |-> 10 + i] : n \in 0..(MaxSide * MaxSide * MaxSide + 1)}

ReshapeShapes == TuplesOf(0..MaxSide, 0, MaxShapeLen)

ListReshape2d ==
    /\ call = Idle
    /\ \E lst \in FlatLists, shape \in ReshapeShapes, flat_start \in 0..MaxSide :
          /\ call' = [fn |-> "list_reshape_2d", lst |-> lst, shape |-> shape,
                      flat_start |-> flat_start]
          /\ ret' = list_reshape_2d(lst, shape, flat_start)
    /\ UNCHANGED <<heap, rasters>>

ListReshape3d ==
    /\ call = Idle
    /\ \E lst \in FlatLists, shape \in ReshapeShapes :
          /\ call' = [fn |-> "list_reshape_3d", lst |-> lst, shape |-> shape]
          /\ ret' = list_reshape_3d(lst, shape)
    /\ UNCHANGED <<heap, rasters>>

NextReshape == ListReshape2d \/ ListReshape3d

SpecReshape == InitIdle /\ [][NextReshape]_vars

\* out is B bands of R rows of C elements, element (b, r, c) being the
\* element of lst at the row-major flat position of (b, r, c).
IsRowMajor3d(out, lst, B, R, C) ==
    /\ Len(out) = B
    /\ \A b \in 1..B :
          /\ Len(out[b]) = R
          /\ \A r \in 1..R :
                /\ Len(out[b][r]) = C
                /\ \A c \in 1..C :
                      out[b][r][c] = lst[(b - 1) * R * C + (r - 1) * C + (c - 1) + 1]

\* C4: for a flat sequence lst and a 3-element shape (B, R, C) with
\* len(lst) >= B*R*C, list_reshape_3d returns B bands of R rows of C
\* elements with out[b][r][c] = lst[b*R*C + r*C + c]; a shape that does not
\* have exactly 3 elements fails with InvalidInput, and list_reshape_2d fails
\* with InvalidInput for a shape that does not have exactly 2 elements.
C4_Reshape3dRowMajor ==
    /\ (call.fn = "list_reshape_3d" /\ Len(call.shape) = 3
          /\ Len(call.lst) >= Prod(call.shape)) =>
          /\ ret.kind = "return"
          /\ IsRowMajor3d(ret.value, call.lst,
                          call.shape[1], call.shape[2], call.shape[3])
    /\ (call.fn = "list_reshape_3d" /\ Len(call.shape) # 3) =>
          (ret.kind = "raise" /\ ret.error \in InvalidInput)
    /\ (call.fn = "list_reshape_2d" /\ Len(call.shape) # 2) =>
          (ret.kind = "raise" /\ ret.error \in InvalidInput)

\* C4 witness: a flat sequence has been reshaped into two bands of two rows
\* of two elements, so the second band starts past the first band's segment.
C4_Witness ==
    /\ call.fn = "list_reshape_3d"
    /\ call.shape = <<2, 2, 2>>
    /\ ret.kind = "return"
    /\ ret.value[2][1][1] = call.lst[5]

(***************************************************************************)
(* merge_masks  (utils.py 70-77)                                           *)
(*                                                                         *)
(* Masks are mutable arrays: `heap` maps an object (its position) to its   *)
(* cells, a mask argument is an object, and two arguments may be the same  *)
(* object.                                                                 *)
(***************************************************************************)

\* A plausible slip: the accumulator bound to the first mask itself.
MaskAlias(h, m) == [heap |-> h, obj |-> m]

\* m.copy(): a new object holding m's cells.
MaskCopy(h, m) == [heap |-> Append(h, h[m]), obj |-> Len(h) + 1]

\* A plausible slip: the masks intersected instead of united.
InplaceAnd(h, mask, m) ==
    [h EXCEPT ![mask] = [c \in DOMAIN h[mask] |-> h[mask][c] /\ h[m][c]]]

\* mask |= m: the cells of object `mask` are overwritten in place.
InplaceOr(h, mask, m) ==
    [h EXCEPT ![mask] = [c \in DOMAIN h[mask] |-> h[mask][c] \/ h[m][c]]]

\* The loop of merge_masks over the masks still to visit; `mask` is None or
\* the accumulator object.
RECURSIVE MergeLoop(_, _, _)
MergeLoop(h, masks, mask) ==
    IF Len(masks) = 0 THEN [heap |-> h, value |-> mask]
    ELSE IF IsNone(mask)
         THEN LET cp == MaskCopy(h, Head(masks))
              IN  MergeLoop(cp.heap, Tail(masks), Some(cp.obj))
         ELSE MergeLoop(InplaceOr(h, mask[1], Head(masks)), Tail(masks), mask)

merge_masks(h, masks) == MergeLoop(h, masks, NoneV)

\* Cells per mask, mask objects alive before the call, most masks in a call.
NCells == 2
MaxObjs == 2
MaxMasks == 3

MaskCells == [1..NCells -> BOOLEAN]

InitMasks ==
    /\ call = Idle
    /\ ret = NoRet
    /\ heap \in [1..MaxObjs -> MaskCells]
    /\ rasters = <<>>

MergeMasks ==
    /\ call = Idle
    /\ \E masks \in TuplesOf(1..Len(heap), 0, MaxMasks) :
          LET r == merge_masks(heap, masks)
          IN  /\ call' = [fn |-> "merge_masks", masks |-> masks, heap0 |-> heap,
                          written |-> FALSE]
              /\ ret' = Return(r.value)
              /\ heap' = r.heap
    /\ UNCHANGED rasters

\* The caller changes one cell of the returned mask in place.
WriteResult ==
    /\ call.fn = "merge_masks"
    /\ ~call.written
    /\ ~IsNone(ret.value)
    /\ \E c \in 1..NCells :
          heap' = [heap EXCEPT ![ret.value[1]][c] = ~heap[ret.value[1]][c]]
    /\ call' = [call EXCEPT !.written = TRUE]
    /\ UNCHANGED <<ret, rasters>>

NextMasks == MergeMasks \/ WriteResult

SpecMasks == InitMasks /\ [][NextMasks]_vars

\* C3: merge_masks returns a mask whose cell is true exactly when that cell
\* is true in at least one mask of the sequence, every mask contributing,
\* and returns None when the sequence is empty.
C3_MergeIsUnion ==
    (call.fn = "merge_masks" /\ ~call.written) =>
        /\ ret.kind = "return"
        /\ IsNone(ret.value) <=> Len(call.masks) = 0
        /\ ~IsNone(ret.value) =>
              \A c \in 1..NCells :
                  heap[ret.value[1]][c] <=>
                      \E i \in 1..Len(call.masks) : call.heap0[call.masks[i]][c]

\* C3 witness: the merged mask has a cell that is true only in the last of
\* three masks.
C3_Witness ==
    /\ call.fn = "merge_masks"
    /\ ~call.written
    /\ Len(call.masks) = 3
    /\ \E c \in 1..NCells :
          /\ ~call.heap0[call.masks[1]][c]
          /\ ~call.heap0[call.masks[2]][c]
          /\ call.heap0[call.masks[3]][c]
          /\ heap[ret.value[1]][c]

\* C10: merge_masks never modifies its inputs: after the call, and after
\* later in-place changes to the result, every mask that existed before the
\* call has the cells it had then, and the returned mask is an object
\* distinct from the first mask (and from every input).
C10_InputsUntouched ==
    call.fn = "merge_masks" =>
        /\ \A o \in 1..Len(call.heap0) : heap[o] = call.heap0[o]
        /\ ~IsNone(ret.value) =>
              /\ ret.value[1] # call.masks[1]
              /\ ret.value[1] \notin 1..Len(call.heap0)

\* C10 witness: the accumulation changed the copy of the first mask, the
\* caller then wrote to the result, and the first mask still is as it was.
C10_Witness ==
    /\ call.fn = "merge_masks"
    /\ call.written
    /\ Len(call.masks) >= 2
    /\ heap[ret.value[1]] # call.heap0[call.masks[1]]
    /\ call.heap0[call.masks[2]] # call.heap0[call.masks[1]]
    /\ heap[call.masks[1]] = call.heap0[call.masks[1]]

(***************************************************************************)
(* single_band_mappable  (utils.py 80-139)                                 *)
(***************************************************************************)

\* chunk[0]: the first sub-array along the leading axis.
Index0(a) ==
    IF a.shape[1] = 0 THEN Raise("IndexError")
    ELSE Return(Array(Tail(a.shape), SubSeq(a.data, 1, Prod(Tail(a.shape)))))

\* np.expand_dims(a, axis=0): a leading axis of length 1.
ExpandDims(a) == Array(<<1>> \o a.shape, a.data)

\* The functions wrapped: each maps a 2-d chunk (R, C) to an array.
\*   negate     (R, C), every element negated
\*   transpose  (C, R)
\*   row_sums   (R,), a 1-d result
\*   stack      (2, R, C), a 3-d result
WrappedFuncs == {"negate", "transpose", "row_sums", "stack"}

RECURSIVE Sum(_)
Sum(s) == IF Len(s) = 0 THEN 0 ELSE Head(s) + Sum(Tail(s))

ApplyFunc(f, a) ==
    LET R == a.shape[1]
        C == a.shape[2]
    IN  CASE f = "negate" -> Array(a.shape, [i \in 1..Len(a.data) |-> 0 - a.data[i]])
          [] f = "transpose" ->
                Array(<<C, R>>,
                      [i \in 1..(R * C) |->
                          a.data[((i - 1) % R) * C + ((i - 1) \div R) + 1]])
          [] f = "row_sums" ->
                Array(<<R>>,
                      [r \in 1..R |-> Sum(SubSeq(a.data, (r - 1) * C + 1, r * C))])
          [] f = "stack" -> Array(<<2>> \o a.shape, a.data \o a.data)

\* The keyword arguments of one call of the wrapped function: block_info is
\* None when the keyword is not passed, Some(value) when it is.
FuncCall(chunk, kw) == [chunk |-> chunk, block_info |-> kw]

\* The outcome of a wrapper call, and the calls of the wrapped function it
\* made.
Outcome(r, fcalls) == [ret |-> r, fcalls |-> fcalls]

\* A plausible slip: the band axis added to every result.
wrapper_always_expands(func, pass_block_info, chunk, block_info) ==
    LET has_band_dim == NDim(chunk) = 3
    IN  IF has_band_dim /\ chunk.shape[1] > 1
        THEN Outcome(Raise("TypeError"), <<>>)
        ELSE LET inner == IF has_band_dim THEN Index0(chunk) ELSE Return(chunk)
             IN  IF inner.kind = "raise" THEN Outcome(inner, <<>>)
                 ELSE LET kw == IF pass_block_info THEN Some(block_info) ELSE NoneV
                          result == ApplyFunc(func, inner.value)
                          fcalls == <<FuncCall(inner.value, kw)>>
                      IN  IF has_band_dim /\ NDim(result) > 2
                          THEN Outcome(Raise("TypeError"), fcalls)
                          ELSE Outcome(Return(ExpandDims(result)), fcalls)

\* A plausible slip: the band count never checked.
wrapper_no_band_check(func, pass_block_info, chunk, block_info) ==
    LET has_band_dim == NDim(chunk) = 3
        inner == IF has_band_dim THEN Index0(chunk) ELSE Return(chunk)
    IN  IF inner.kind = "raise" THEN Outcome(inner, <<>>)
        ELSE LET kw == IF pass_block_info THEN Some(block_info) ELSE NoneV
                 result == ApplyFunc(func, inner.value)
                 fcalls == <<FuncCall(inner.value, kw)>>
             IN  IF has_band_dim /\ NDim(result) > 2
                 THEN Outcome(Raise("TypeError"), fcalls)
                 ELSE IF has_band_dim
                      THEN Outcome(Return(ExpandDims(result)), fcalls)
                      ELSE Outcome(Return(result), fcalls)

\* The wrapper of the default mode (no_input_chunk false).
wrapper(func, pass_block_info, chunk, block_info) ==
    LET has_band_dim == NDim(chunk) = 3
    IN  IF has_band_dim /\ chunk.shape[1] > 1
        THEN Outcome(Raise("TypeError"), <<>>)
        ELSE LET inner == IF has_band_dim THEN Index0(chunk) ELSE Return(chunk)
             IN  IF inner.kind = "raise" THEN Outcome(inner, <<>>)
                 ELSE LET kw == IF pass_block_info THEN Some(block_info) ELSE NoneV
                          result == ApplyFunc(func, inner.value)
                          fcalls == <<FuncCall(inner.value, kw)>>
                      IN  IF has_band_dim /\ NDim(result) > 2
                          THEN Outcome(Raise("TypeError"), fcalls)
                          ELSE IF has_band_dim
                               THEN Outcome(Return(ExpandDims(result)), fcalls)
                               ELSE Outcome(Return(result), fcalls)

\* The wrapper of the second mode (no_input_chunk true): the arguments go
\* through unchanged, block_info always passed, and a result of fewer than 3
\* dimensions gets a band axis when the block's chunk-shape has 3.
wrapper_no_input_chunk(func, arg, block_info) ==
    LET result == ApplyFunc(func, arg)
        fcalls == <<FuncCall(arg, Some(block_info))>>
    IN  IF ~IsNone(block_info) /\ NDim(result) < 3
             /\ Len(block_info[1].chunk_shape) = 3
        THEN Outcome(Return(ExpandDims(result)), fcalls)
        ELSE Outcome(Return(result), fcalls)

\* Largest row and column count of a chunk, and most bands in a chunk.
MaxChunkSide == 2
MaxChunkBands == 2

\* The elements of a chunk: pairwise distinct.
ChunkData(n) == [i \in 1..n |-> 20 + i]

Chunks2d ==
    {Array(<<R, C>>, ChunkData(R * C)) : R \in 1..MaxChunkSide, C \in 1..MaxChunkSide}

Chunks3d ==
    UNION {{Array(<<B, R, C>>, ChunkData(B * R * C)) : B \in 0..MaxChunkBands} :
              R \in 1..MaxChunkSide, C \in 1..MaxChunkSide}

\* block_info: None, or the block's position, of which only the chunk shape
\* is read.
BlockInfos(chunk) ==
    {NoneV, Some([chunk_shape |-> chunk.shape]),
     Some([chunk_shape |-> <<1>> \o chunk.shape])}

CallWrapper ==
    /\ call = Idle
    /\ \E func \in WrappedFuncs, pass_block_info \in BOOLEAN,
          chunk \in Chunks2d \cup Chunks3d :
       \E block_info \in BlockInfos(chunk) :
          LET r == wrapper(func, pass_block_info, chunk, block_info)
          IN  /\ call' = [fn |-> "wrapper", func |-> func,
                          pass_block_info |-> pass_block_info, chunk |-> chunk,
                          block_info |-> block_info, fcalls |-> r.fcalls]
              /\ ret' = r.ret
    /\ UNCHANGED <<heap, rasters>>

CallWrapperNoInputChunk ==
    /\ call = Idle
    /\ \E func \in WrappedFuncs, arg \in Chunks2d :
       \E block_info \in BlockInfos(arg) :
          LET r == wrapper_no_input_chunk(func, arg, block_info)
          IN  /\ call' = [fn |-> "wrapper_no_input_chunk", func |-> func,
                          chunk |-> arg, block_info |-> block_info,
                          fcalls |-> r.fcalls]
              /\ ret' = r.ret
    /\ UNCHANGED <<heap, rasters>>

NextMappable == CallWrapper \/ CallWrapperNoInputChunk

SpecMappable == InitIdle /\ [][NextMappable]_vars

\* The wrapped functions that return a 2-d result for a 2-d chunk.
Funcs2d == {"negate", "transpose"}

\* The 2-d slice of a chunk of shape (1, R, C).
Band0(chunk) == Array(<<chunk.shape[2], chunk.shape[3]>>, chunk.data)

\* C5: in the default mode, for a wrapped function f with a 2-d result: on a
\* 3-d chunk of shape (1, R, C), f receives exactly chunk[0] and the wrapper
\* returns a 3-d result of shape (1,) + shape(f(chunk[0])) whose band 0 is
\* f(chunk[0]); on a 2-d chunk, f receives the chunk unchanged and the
\* wrapper returns f's result unchanged.  block_info reaches f only when
\* pass_block_info is set.
C5_WrapperStripsAndRestoresBand ==
    (call.fn = "wrapper" /\ call.func \in Funcs2d) =>
        /\ (NDim(call.chunk) = 3 /\ call.chunk.shape[1] = 1) =>
              LET fres == ApplyFunc(call.func, Band0(call.chunk))
              IN  /\ Len(call.fcalls) = 1
                  /\ call.fcalls[1].chunk = Band0(call.chunk)
                  /\ ret.kind = "return"
                  /\ ret.value.shape = <<1>> \o fres.shape
                  /\ NDim(ret.value) = 3
                  /\ ret.value.data = fres.data
        /\ NDim(call.chunk) = 2 =>
              /\ Len(call.fcalls) = 1
              /\ call.fcalls[1].chunk = call.chunk
              /\ ret = Return(ApplyFunc(call.func, call.chunk))
        /\ \A i \in 1..Len(call.fcalls) :
              call.fcalls[i].block_info =
                  IF call.pass_block_info THEN Some(call.block_info) ELSE NoneV

\* C5 witness: a transposing function has been mapped over a (1, 1, 2) chunk
\* with block_info forwarded, and the result has shape (1, 2, 1).
C5_Witness ==
    /\ call.fn = "wrapper"
    /\ call.func = "transpose"
    /\ call.chunk.shape = <<1, 1, 2>>
    /\ call.pass_block_info
    /\ ~IsNone(call.block_info)
    /\ call.fcalls[1].block_info = Some(call.block_info)
    /\ ret.kind = "return"
    /\ ret.value.shape = <<1, 2, 1>>

\* C6: in the default mode, a 3-d chunk with more than one band fails with
\* InvalidInput without the wrapped function being invoked, and a 3-d chunk
\* of shape (1, R, C) whose wrapped function returns more than 2 dimensions
\* fails with InvalidInput instead of returning a result.
C6_WrapperRejects ==
    (call.fn = "wrapper" /\ NDim(call.chunk) = 3) =>
        /\ call.chunk.shape[1] > 1 =>
              /\ ret.kind = "raise"
              /\ ret.error \in InvalidInput
              /\ call.fcalls = <<>>
        /\ (call.chunk.shape[1] = 1
              /\ NDim(ApplyFunc(call.func, Band0(call.chunk))) > 2) =>
              /\ ret.kind = "raise"
              /\ ret.error \in InvalidInput

\* C6 witness: the wrapped function was called on the slice of a one-band
\* chunk, returned 3 dimensions, and the wrapper raised.
C6_Witness ==
    /\ call.fn = "wrapper"
    /\ call.chunk.shape[1] = 1
    /\ NDim(call.chunk) = 3
    /\ call.func = "stack"
    /\ Len(call.fcalls) = 1
    /\ ret.kind = "raise"

(***************************************************************************)
(* make_raster  (utils.py 46-67)                                           *)
(*                                                                         *)
(* A Raster is the two-field dataset make_raster_ds builds (the value grid *)
(* "raster" and the "mask", both 3-d arrays) with the band, y and x        *)
(* coordinates, the no-data fill value and the CRS.  Wrapping the data in  *)
(* a dask array changes its chunking, not its values or shape.             *)
(***************************************************************************)

\* A plausible slip: the band coordinate left 0-based.
BandCoordZeroBased(n) == [i \in 1..n |-> i - 1]

\* np.arange(n) + 1
BandCoord(n) == [i \in 1..n |-> i]

\* xr.zeros_like(xdata, dtype=bool)
ZerosLike(a) == Array(a.shape, [i \in 1..Len(a.data) |-> FALSE])

\* A plausible slip: `if null_value:` instead of `if null_value is not None:`.
NullMaskTruthy(xdata, null_value) ==
    IF ~IsNone(null_value) /\ null_value[1] # 0
    THEN Array(xdata.shape, [i \in 1..Len(xdata.data) |-> xdata.data[i] = null_value[1]])
    ELSE ZerosLike(xdata)

\* The mask of make_raster: xdata == null_value, or all false without one.
NullMask(xdata, null_value) ==
    IF ~IsNone(null_value)
    THEN Array(xdata.shape, [i \in 1..Len(xdata.data) |-> xdata.data[i] = null_value[1]])
    ELSE ZerosLike(xdata)

\* make_raster_ds, with the coordinates and attributes the dataset carries.
make_raster_ds(xdata, xmask, band, y, x, nodata, crs) ==
    [raster |-> xdata, mask |-> xmask, band |-> band, y |-> y, x |-> x,
     nodata |-> nodata, crs |-> crs]

\* Raster(ds, _fast_path=True): the dataset is wrapped as it is.
RasterFastPath(ds) == ds

make_raster(data, x, y, crs, null_value) ==
    LET data3 == IF NDim(data) = 2 THEN ExpandDims(data) ELSE data
        band == BandCoord(data3.shape[1])
        xmask == NullMask(data3, null_value)
        ds == make_raster_ds(data3, xmask, band, y, x, null_value, crs)
    IN  RasterFastPath(ds)

\* Most bands of a grid handed to make_raster.
MaxBandsIn == 2

\* The (rows, columns) of the grids.
GridShapes == {<<1, 1>>, <<1, 2>>, <<2, 2>>}

\* Cell values, and the null values tried: none, one of the values
\* (0 among them), and a value no cell holds.
CellValues == {0, 1}
NullValues == {NoneV, Some(0), Some(1), Some(2)}
CrsValues == {NoneV, Some("EPSG:4326")}

Grids2d == UNION {{Array(sh, d) : d \in [1..Prod(sh) -> CellValues]} : sh \in GridShapes}

Grids3d ==
    UNION {{Array(<<B>> \o sh, d) : d \in [1..(B * Prod(sh)) -> CellValues]} :
              B \in 1..MaxBandsIn, sh \in GridShapes}

\* Coordinate vectors matching a grid's last two axes.
YCoords(data) == [i \in 1..data.shape[NDim(data) - 1] |-> i]
XCoords(data) == [i \in 1..data.shape[NDim(data)] |-> i]

\* One call of make_raster on a grid of Grids.
MakeRasterFrom(Grids, Nulls, Crs) ==
    \E data \in Grids, null_value \in Nulls, crs \in Crs :
        LET r == make_raster(data, XCoords(data), YCoords(data), crs, null_value)
        IN  /\ call' = [fn |-> "make_raster", data |-> data,
                        null_value |-> null_value, crs |-> crs]
            /\ ret' = Return(r)
            /\ rasters' = Append(rasters, r)
            /\ UNCHANGED heap

MakeRaster ==
    /\ call = Idle
    /\ MakeRasterFrom(Grids2d \cup Grids3d, NullValues, CrsValues)

NextMakeRaster == MakeRaster

SpecMakeRaster == InitIdle /\ [][NextMakeRaster]_vars

\* C7: for a 2-d or 3-d integer grid passed to make_raster, the Raster's
\* mask has exactly the shape of its 3-d value grid; with a null_value
\* (0 included) a mask cell is true exactly when the data cell equals the
\* null value, and the null value is recorded as the no-data fill value;
\* without one the mask is false everywhere.
C7_MaskFromNullValue ==
    call.fn = "make_raster" =>
        LET r == ret.value
            nv == call.null_value
        IN  /\ NDim(r.raster) = 3
            /\ r.mask.shape = r.raster.shape
            /\ r.raster.data = call.data.data
            /\ Len(r.mask.data) = Len(call.data.data)
            /\ ~IsNone(nv) =>
                  /\ \A i \in 1..Len(call.data.data) :
                        r.mask.data[i] <=> call.data.data[i] = nv[1]
                  /\ r.nodata = nv
            /\ IsNone(nv) => \A i \in 1..Len(r.mask.data) : ~r.mask.data[i]

\* C7 witness: a 2-d grid holding a zero and a one was made into a Raster
\* with null value 0, and the mask is true at the zero only.
C7_Witness ==
    /\ call.fn = "make_raster"
    /\ call.data = Array(<<1, 2>>, <<0, 1>>)
    /\ call.null_value = Some(0)
    /\ ret.value.mask = Array(<<1, 1, 2>>, <<TRUE, FALSE>>)
    /\ ret.value.nodata = Some(0)

(***************************************************************************)
(* band_concat  (raster_tools.band_concat; exercised by                    *)
(* test/test_raster_funcs.py 32-83)                                        *)
(***************************************************************************)

\* The (rows, columns) of a Raster.
SpatialShape(r) == Tail(r.raster.shape)

RECURSIVE ConcatBands(_)
ConcatBands(arrays) ==
    IF Len(arrays) = 1 THEN Head(arrays)
    ELSE LET rest == ConcatBands(Tail(arrays))
         IN  Array(<<Head(arrays).shape[1] + rest.shape[1]>> \o Tail(rest.shape),
                   Head(arrays).data \o rest.data)

\* The band coordinate of a concatenation: renumbered from 1 over all bands.
ConcatBandCoord(n) == [i \in 1..n |-> i]

\* band_concat(rasters): the values and masks stacked band-wise in input
\* order, the band coordinate renumbered, the rest taken from the first.
band_concat(rs) ==
    IF Len(rs) = 0 THEN Raise("ValueError")
    ELSE IF \E i \in 1..Len(rs) : SpatialShape(rs[i]) # SpatialShape(rs[1])
    THEN Raise("ValueError")
    ELSE LET values == ConcatBands([i \in 1..Len(rs) |-> rs[i].raster])
             mask == ConcatBands([i \in 1..Len(rs) |-> rs[i].mask])
         IN  Return(RasterFastPath(
                 make_raster_ds(values, mask, ConcatBandCoord(values.shape[1]),
                                rs[1].y, rs[1].x, rs[1].nodata, rs[1].crs)))

\* Most Rasters built in one run, and most Rasters in one band_concat call.
MaxPool == 3
MaxConcat == 2

\* The grids Rasters are made from here: one- to MaxBandsIn-band grids over
\* two spatial shapes, every cell holding its own flat position.
SampleData(n) == [i \in 1..n |-> i - 1]

SampleGrids ==
    {Array(<<1, 2>>, SampleData(2)), Array(<<2, 2>>, SampleData(4))}
        \cup {Array(<<B, 1, 2>>, SampleData(B * 2)) : B \in 1..MaxBandsIn}

MakeRasterInPool ==
    /\ Len(rasters) < MaxPool
    /\ MakeRasterFrom(SampleGrids, {NoneV, Some(0)}, {NoneV})

BandConcat ==
    /\ Len(rasters) < MaxPool
    /\ \E idx \in TuplesOf(1..Len(rasters), 0, MaxConcat) :
          LET r == band_concat([i \in 1..Len(idx) |-> rasters[idx[i]]])
          IN  /\ call' = [fn |-> "band_concat", rasters |-> idx]
              /\ ret' = r
              /\ rasters' = IF r.kind = "return" THEN Append(rasters, r.value)
                            ELSE rasters
    /\ UNCHANGED heap

NextBands == MakeRasterInPool \/ BandConcat

SpecBands == InitIdle /\ [][NextBands]_vars

\* The number of bands of a Raster's value grid.
NBands(r) == r.raster.shape[1]

CostNull == 0 - 1
TracebackNull == 0 - 1
AllocationNull == 0 - 1

Surface(rows, cols, cost, size) ==
    [rows |-> rows, cols |-> cols, cost |-> cost, size |-> size]

NCellsOf(cs) == cs.rows * cs.cols
RowOf(cs, i) == (i - 1) \div cs.cols
ColOf(cs, i) == (i - 1) % cs.cols
IsNullCell(cs, i) == cs.cost[i] = CostNull

Abs(n) == IF n < 0 THEN 0 - n ELSE n

\* The up to 8 neighbours of cell i that are on the grid and not null.
Neighbours(cs, i) ==
    {j \in 1..NCellsOf(cs) :
        /\ j # i
        /\ Abs(RowOf(cs, j) - RowOf(cs, i)) <= 1
        /\ Abs(ColOf(cs, j) - ColOf(cs, i)) <= 1
        /\ ~IsNullCell(cs, j)}

IsDiagonal(cs, i, j) == RowOf(cs, i) # RowOf(cs, j) /\ ColOf(cs, i) # ColOf(cs, j)

\* The cost of the step between neighbours i and j: the mean of the two
\* cell costs times the distance between the cell centres.
EdgeCost(cs, i, j) ==
    LET w == cs.size * (cs.cost[i] + cs.cost[j])
    IN  IF IsDiagonal(cs, i, j) THEN <<0, w>> ELSE <<w, 0>>

AddCost(p, q) == <<p[1] + q[1], p[2] + q[2]>>

\* p < q for accumulated costs: the sign of a + b*sqrt(2), exactly.
LessCost(p, q) ==
    LET a == p[1] - q[1]
        b == p[2] - q[2]
    IN  \/ a < 0 /\ b <= 0
        \/ a <= 0 /\ b < 0
        \/ a > 0 /\ b < 0 /\ a * a < 2 * b * b
        \/ a < 0 /\ b > 0 /\ 2 * b * b < a * a

\* The direction code at cell v of its neighbour u: 1 is east (the next
\* column) and the codes go clockwise: 2 south-east, 3 south (the next
\* row), 4 south-west, 5 west, 6 north-west, 7 north, 8 north-east.
Direction(cs, v, u) ==
    LET dr == RowOf(cs, u) - RowOf(cs, v)
        dc == ColOf(cs, u) - ColOf(cs, v)
    IN  CASE dr = 0 /\ dc = 1 -> 1
          [] dr = 1 /\ dc = 1 -> 2
          [] dr = 1 /\ dc = 0 -> 3
          [] dr = 1 /\ dc = 0 - 1 -> 4
          [] dr = 0 /\ dc = 0 - 1 -> 5
          [] dr = 0 - 1 /\ dc = 0 - 1 -> 6
          [] dr = 0 - 1 /\ dc = 0 -> 7
          [] dr = 0 - 1 /\ dc = 1 -> 8

\* A cell no path has reached yet has no accumulated cost.
Unreached == <<>>

\* The position (0-based) of cell i in the sources index array.
RECURSIVE LabelOf(_, _)
LabelOf(sources, i) ==
    IF Head(sources) = i THEN 0 ELSE 1 + LabelOf(Tail(sources), i)

InSources(sources, i) == \E k \in 1..Len(sources) : sources[k] = i

\* The state the accumulation starts from: every source at cost 0 with
\* traceback 0 and its own label, nothing finalized.
SeedState(cs, sources) ==
    [acc |-> [i \in 1..NCellsOf(cs) |->
                 IF InSources(sources, i) THEN <<0, 0>> ELSE Unreached],
     traceback |-> [i \in 1..NCellsOf(cs) |->
                       IF InSources(sources, i) THEN 0 ELSE TracebackNull],
     allocation |-> [i \in 1..NCellsOf(cs) |->
                        IF InSources(sources, i) THEN LabelOf(sources, i)
                        ELSE AllocationNull],
     done |-> {}]

\* A plausible slip: the first reached cell popped, not the cheapest.
PopCheapestFirstFound(st, open) == CHOOSE u \in open : \A v \in open : u <= v

\* The open cell of least accumulated cost, the lowest cell first on a tie.
PopCheapest(st, open) ==
    CHOOSE u \in open :
        \A v \in open :
            \/ LessCost(st.acc[u], st.acc[v])
            \/ ~LessCost(st.acc[v], st.acc[u]) /\ u <= v

\* Finalize cell u and relax its neighbours that are not finalized.
Relax(cs, st, u) ==
    LET better(v) ==
            /\ v \in Neighbours(cs, u)
            /\ v \notin st.done
            /\ \/ st.acc[v] = Unreached
               \/ LessCost(AddCost(st.acc[u], EdgeCost(cs, u, v)), st.acc[v])
    IN  [acc |-> [v \in 1..NCellsOf(cs) |->
                     IF better(v) THEN AddCost(st.acc[u], EdgeCost(cs, u, v))
                     ELSE st.acc[v]],
         traceback |-> [v \in 1..NCellsOf(cs) |->
                           IF better(v) THEN Direction(cs, v, u)
                           ELSE st.traceback[v]],
         allocation |-> [v \in 1..NCellsOf(cs) |->
                            IF better(v) THEN st.allocation[u]
                            ELSE st.allocation[v]],
         done |-> st.done \cup {u}]

\* The one element of a singleton set.  {e(x) : x \in {v}} evaluates v once,
\* where an operator argument would be evaluated at every use.
Only(S) == CHOOSE x \in S : TRUE

\* The priority-driven accumulation: until no reached cell is open.
RECURSIVE Accumulate(_, _)
Accumulate(cs, st) ==
    LET open == {i \in 1..NCellsOf(cs) : st.acc[i] # Unreached /\ i \notin st.done}
    IN  IF open = {} THEN st
        ELSE Only({Accumulate(cs, next) :
                      next \in {Relax(cs, st, u) : u \in {PopCheapest(st, open)}}})

\* cost_distance_analysis(cost_surface, sources) with sources an array of
\* cell indices: the cost-distance, traceback and allocation grids, an
\* unreached cell carrying each grid's null value.
cost_distance_analysis(cs, sources) ==
    Only({[cost_distance |-> [i \in 1..NCellsOf(cs) |->
                                 IF st.acc[i] = Unreached THEN <<2 * CostNull, 0>>
                                 ELSE st.acc[i]],
           traceback |-> st.traceback,
           allocation |-> st.allocation] :
             st \in {Accumulate(cs, seed) : seed \in {SeedState(cs, sources)}}})

\* Highest cell cost, and most source cells.
MaxCost == 3
MaxSources == 2

\* The (rows, columns) of the cost surfaces, and the cell sizes.
CostShapes == {<<1, 3>>, <<2, 2>>}
CellSizes == {1, 5}

\* The worked example of the tests: the cost surface, with -1 its null
\* value, and the cells of the non-zero entries of SOURCES.
COST_SURF ==
    << 1, 3, 4, 4, 3, 2,
       7, 3, 2, 6, 4, 6,
       5, 8, 7, 5, 6, 6,
       1, 4, 5, 0 - 1, 5, 1,
       4, 7, 5, 0 - 1, 2, 6,
       1, 2, 2, 1, 3, 4 >>

SOURCES_IDXS == <<2, 3, 9, 31>>

ExampleSurfaces == {Surface(6, 6, COST_SURF, size) : size \in CellSizes}

SmallSurfaces ==
    UNION {{Surface(sh[1], sh[2], cost, size) :
               cost \in [1..(sh[1] * sh[2]) -> {CostNull} \cup 1..MaxCost],
               size \in CellSizes} : sh \in CostShapes}

\* A set of cells as an index array, in row-major order (as np.argwhere
\* lists them).
RECURSIVE SortedCells(_)
SortedCells(S) ==
    IF S = {} THEN <<>>
    ELSE LET lo == CHOOSE i \in S : \A j \in S : i <= j
         IN  <<lo>> \o SortedCells(S \ {lo})

\* The index arrays of 1..MaxSources distinct cells that hold a cost.
SourceArrays(cs) ==
    {SortedCells(S) :
        S \in {T \in SUBSET {i \in 1..NCellsOf(cs) : ~IsNullCell(cs, i)} :
                  Cardinality(T) \in 1..MaxSources}}

CostSurfaces == SmallSurfaces \cup ExampleSurfaces

SourceInputs(cs) ==
    IF cs \in ExampleSurfaces THEN {SOURCES_IDXS} ELSE SourceArrays(cs)

CostDistanceAnalysis ==
    /\ call = Idle
    /\ \E cs \in CostSurfaces :
       \E sources \in SourceInputs(cs) :
          /\ call' = [fn |-> "cost_distance_analysis", cost_surface |-> cs,
                      sources |-> sources]
          /\ ret' = Return(cost_distance_analysis(cs, sources))
    /\ UNCHANGED <<heap, rasters>>

NextCost == CostDistanceAnalysis

SpecCost == InitIdle /\ [][NextCost]_vars

\* The least cost of a walk of at most n steps from a source to each cell,
\* through cells that are not null: d holds the least costs for n - 1 steps.
MinCost(S) ==
    IF S = {} THEN Unreached ELSE CHOOSE p \in S : \A q \in S : ~LessCost(q, p)

OneMoreStep(cs, d) ==
    [v \in 1..NCellsOf(cs) |->
        IF IsNullCell(cs, v) THEN Unreached
        ELSE MinCost(({d[v]} \ {Unreached})
                 \cup {AddCost(d[u], EdgeCost(cs, u, v)) :
                          u \in {w \in Neighbours(cs, v) : d[w] # Unreached}})]

RECURSIVE LeastWalkCosts(_, _, _)
LeastWalkCosts(cs, d, n) ==
    IF n = 0 THEN d
    ELSE Only({LeastWalkCosts(cs, d2, n - 1) : d2 \in {OneMoreStep(cs, d)}})

\* The least cost of a path from any source to each cell (a least-cost walk
\* visits no cell twice, so it has fewer steps than there are cells).
LeastPathCosts(cs, sources) ==
    Only({LeastWalkCosts(cs, d0, NCellsOf(cs) - 1) :
             d0 \in {[i \in 1..NCellsOf(cs) |->
                        IF InSources(sources, i) THEN <<0, 0>> ELSE Unreached]}})

CD_TRUTH_SCALE_1 ==
    <<  2000000,        0,        0,  4000000,  7500000, 10000000,
        6000000,  2500000,        0,  4000000,  9000000, 13863961,
        8000000,  7071068,  4500000,  4949747, 10449747, 12742641,
        5000000,  7500000, 10500000, -1000000, 10621320,  9242641,
        2500000,  5656854,  6449747, -1000000,  7121320, 11121320,
              0,  1500000,  3500000,  5000000,  7000000, 10500000 >>

TR_TRUTH_SCALE_1 ==
    << 1, 0, 0, 5, 5, 5,
       7, 1, 0, 5, 5, 6,
       3, 8, 7, 6, 5, 3,
       3, 5, 7, -1, 3, 4,
       3, 4, 4, -1, 4, 5,
       0, 5, 5, 5, 5, 5 >>

AL_TRUTH_IDXS_SCALE_1 ==
    << 0, 0, 1, 1, 1, 1,
       0, 2, 2, 2, 2, 1,
       3, 2, 2, 2, 2, 3,
       3, 3, 2, -1, 3, 3,
       3, 3, 3, -1, 3, 3,
       3, 3, 3, 3, 3, 3 >>

\* An accumulated cost in millionths, sqrt(2) taken as 1.414214.
Millionths(p) == (p[1] * 1000000 + p[2] * 1414214) \div 2

\* The model of cost_distance_analysis reproduces the truth grids of
\* TestCostDist.test_cost_distance_analysis and, with cells of size 5, those
\* of test_cost_distance_analysis_scale (CD_TRUTH_SCALE_5 is 5 times
\* CD_TRUTH_SCALE_1 on every cell that is not null).
ExampleMatchesTruth ==
    (call.fn = "cost_distance_analysis" /\ call.cost_surface \in ExampleSurfaces) =>
        \A i \in 1..36 :
            /\ IF IsNullCell(call.cost_surface, i)
               THEN Millionths(ret.value.cost_distance[i]) = CD_TRUTH_SCALE_1[i]
               ELSE Abs(Millionths(ret.value.cost_distance[i])
                        - call.cost_surface.size * CD_TRUTH_SCALE_1[i]) <= 10
            /\ ret.value.traceback[i] = TR_TRUTH_SCALE_1[i]
            /\ ret.value.allocation[i] = AL_TRUTH_IDXS_SCALE_1[i]

====
